---- MODULE Spec2Model ----
(***************************************************************************)
(* Model of src/main.cpp: the numeric pipeline                             *)
(*   get_even_numbers -> square_numbers -> sum                             *)
(* the std::to_string label views and format_vector, and main() which      *)
(* drives them on the literal {1, 2, 3, 4, 5, 6}.                          *)
(*                                                                         *)
(* Every loop of the source is modelled one iteration per step.  A call    *)
(* frame (fn, fpc, src, dst, it, ...) holds the callee's locals; `src` is  *)
(* the const reference parameter, i.e. the NAME of the caller's vector in  *)
(* the store `mem`, so that a write through it would be visible.           *)
(*                                                                         *)
(* Two callers exist: driver = "main" is main() itself; driver = "lib"     *)
(* is an arbitrary caller applying the functions to inputs drawn from      *)
(* bounded sets.                                                           *)
(*                                                                         *)
(* `int` is 32 bits wide.  Signed overflow is undefined behaviour: the     *)
(* model lets each overflowing operation either wrap (two's complement)    *)
(* or trap (abnormal termination, as under -ftrapv or a sanitizer).        *)
(***************************************************************************)
EXTENDS Integers, Sequences, FiniteSets

VARIABLES
    driver,     \* "main" or "lib": who calls the functions
    pc,         \* the caller's position
    mem,        \* the caller's vectors, by name
    total,      \* main: int total (line 66); lib: the value sum returned
    ret,        \* the std::string temporary returned by format_vector
    out,        \* everything written to std::cout so far
    exit_code,  \* <<>> while running, <<status>> once main returned
    fn,         \* the function being executed, "none" between calls
    fpc,        \* position inside the function
    src,        \* name of the vector the const reference parameter binds to
    dst,        \* name of the vector that receives the returned vector
    it,         \* position of the range/view iterator in mem[src] (1-based)
    res,        \* the std::vector being constructed from the view
    result,     \* format_vector: std::string result
    first,      \* format_vector: bool first
    sum_total,  \* sum: T total
    last,       \* lib: the function called last
    origin,     \* lib: how mem.S was produced ("input" or a function name)
    feeds       \* lib: how many results were passed on as the next input

vars == <<driver, pc, mem, total, ret, out, exit_code, fn, fpc, src, dst, it,
          res, result, first, sum_total, last, origin, feeds>>

frameVars == <<fn, fpc, src, dst, it, res, result, first, sum_total>>
libVars == <<last, origin, feeds>>

----------------------------------------------------------------------------
(* 32-bit signed int *)

INT_MAX == 2147483647
INT_MIN == -INT_MAX - 1

Abs(n) == IF n < 0 THEN -n ELSE n

\* a % b of C++ for b > 0: the remainder takes the sign of the dividend
CppRem(a, b) ==
    IF a >= 0 THEN a % b
    ELSE IF a % b = 0 THEN 0 ELSE (a % b) - b

\* a / b of C++ for b > 0: truncation toward zero
CppQuot(a, b) == (a - CppRem(a, b)) \div b

\* n * n is representable in int
SquareFits(n) == n # INT_MIN /\ (n = 0 \/ Abs(n) <= INT_MAX \div Abs(n))

\* a + b is representable in int
AddFits(a, b) == IF b >= 0 THEN a <= INT_MAX - b ELSE a >= INT_MIN - b

\* the 32-bit product of two 16-bit halves, as <<high half, low half>>
Mul16(a, b) ==
    LET p == (a \div 256) * b
        t == (p % 256) * 256 + (a % 256) * b
    IN  <<(p \div 256) + (t \div 65536), t % 65536>>

\* x * y reduced modulo 2^32 into the int range (two's complement wrap)
WrapMul(x, y) ==
    LET xh == (x \div 65536) % 65536
        xl == x % 65536
        yh == (y \div 65536) % 65536
        yl == y % 65536
        ll == Mul16(xl, yl)
        hi == (ll[1] + Mul16(xh, yl)[2] + Mul16(xl, yh)[2]) % 65536
    IN  IF hi >= 32768 THEN (hi - 65536) * 65536 + ll[2]
                       ELSE hi * 65536 + ll[2]

\* a + b reduced modulo 2^32 into the int range
WrapAdd(a, b) ==
    IF AddFits(a, b) THEN a + b
    ELSE IF b > 0 THEN (a - INT_MAX - 1) + (b - INT_MAX - 1)
                  ELSE (a + INT_MAX + 1) + (b + INT_MAX + 1)

----------------------------------------------------------------------------
(* Bounds of the model *)

MaxLen == 3
MaxFeeds == 1

Values == {-46341, -2, 0, 1, 2, 46340, INT_MAX}
Labels == {"", "a", "\""}

SeqsUpTo(S, n) == UNION {[1..k -> S] : k \in 0..n}
IntInputs == SeqsUpTo(Values, MaxLen)
LabelInputs == SeqsUpTo(Labels, MaxLen)

----------------------------------------------------------------------------
(* The lambdas *)

\* faulty variant: n % 2 != 1, which takes negative odd numbers for even
IsEven_NotOne(n) == CppRem(n, 2) # 1

\* faulty variant: the inverted test n % 2 != 0
IsEven_Inverted(n) == CppRem(n, 2) # 0

\* [](int n) { return n % 2 == 0; }
IsEven(n) == CppRem(n, 2) = 0

\* [](int n) { return n * n; } when the product is representable or wraps
Square(n) == IF SquareFits(n) THEN n * n ELSE WrapMul(n, n)

\* std::to_string(int)
Digit(d) ==
    CASE d = 0 -> "0" [] d = 1 -> "1" [] d = 2 -> "2" [] d = 3 -> "3"
      [] d = 4 -> "4" [] d = 5 -> "5" [] d = 6 -> "6" [] d = 7 -> "7"
      [] d = 8 -> "8" [] d = 9 -> "9"

RECURSIVE Digits(_)
Digits(n) ==
    IF CppQuot(n, 10) = 0 THEN Digit(Abs(CppRem(n, 10)))
    ELSE Digits(CppQuot(n, 10)) \o Digit(Abs(CppRem(n, 10)))

to_string(n) == IF n < 0 THEN "-" \o Digits(n) ELSE Digits(n)

----------------------------------------------------------------------------
(* The callers' vectors *)

VecNames == {"numbers", "evens", "squared_evens", "original_str", "evens_str",
             "squared_evens_str", "S", "R", "L"}

NoVectors == [n \in VecNames |-> <<>>]

MainNumbers == <<1, 2, 3, 4, 5, 6>>

\* the vector the callee's const reference parameter refers to
base == mem[src]

----------------------------------------------------------------------------
(* Initial states *)

\* no function is executing: the frame holds no locals
IdleFrame ==
    /\ fn = "none" /\ fpc = "none" /\ src = "none" /\ dst = "none"
    /\ it = 1 /\ res = <<>> /\ result = "" /\ first = TRUE /\ sum_total = 0

MainInit ==
    /\ driver = "main" /\ pc = "main_57"
    /\ mem = NoVectors
    /\ total = 0 /\ ret = "" /\ out = "" /\ exit_code = <<>>
    /\ IdleFrame
    /\ last = "none" /\ origin = "input" /\ feeds = 0

LibInit ==
    /\ driver = "lib" /\ pc = "idle"
    /\ \/ \E s \in IntInputs : mem = [NoVectors EXCEPT !["S"] = s]
       \/ \E l \in LabelInputs : mem = [NoVectors EXCEPT !["L"] = l]
    /\ total = 0 /\ ret = "" /\ out = "" /\ exit_code = <<>>
    /\ IdleFrame
    /\ last = "none" /\ origin = "input" /\ feeds = 0

Init == MainInit \/ LibInit

----------------------------------------------------------------------------
(* Calling a function: binds the reference parameter and runs the          *)
(* declarations that precede the loop                                      *)

Call(f, s, d) ==
    /\ fn = "none"
    /\ fn' = f /\ src' = s /\ dst' = d
    /\ it' = 1 /\ res' = <<>>
    /\ result' = (IF f = "format_vector" THEN "{" ELSE "")
    /\ first' = TRUE
    /\ sum_total' = 0
    /\ fpc' = (IF f = "get_even_numbers" THEN "scan" ELSE "loop")

\* the callee's locals are destroyed at return
ResetFrame ==
    /\ fn' = "none" /\ fpc' = "none" /\ src' = "none" /\ dst' = "none"
    /\ it' = 1 /\ res' = <<>> /\ result' = "" /\ first' = TRUE
    /\ sum_total' = 0

\* return std::vector<...>(view.begin(), view.end()) into the caller's variable
ReturnVector ==
    /\ fpc = "return"
    /\ mem' = [mem EXCEPT ![dst] = res]
    /\ ResetFrame
    /\ UNCHANGED <<driver, pc, total, ret, out, exit_code, libVars>>

----------------------------------------------------------------------------
(* get_even_numbers: numbers | std::views::filter(IsEven), collected        *)

\* The filter iterator looks for the next element satisfying the predicate
\* (begin() and operator++ of the view); it reaches end() past the last one.
\* faulty variant: erases a rejected element from the argument in place
FilterScan_Erase ==
    /\ fn = "get_even_numbers" /\ fpc = "scan"
    /\ IF it > Len(base) THEN fpc' = "return" /\ mem' = mem
       ELSE IF IsEven(base[it]) THEN fpc' = "copy" /\ mem' = mem
       ELSE /\ fpc' = fpc
            /\ mem' = [mem EXCEPT ![src] =
                          SubSeq(base, 1, it - 1) \o SubSeq(base, it + 1, Len(base))]
    /\ UNCHANGED <<driver, pc, total, ret, out, exit_code, fn, src, dst, it,
                   res, result, first, sum_total, libVars>>

FilterScan ==
    /\ fn = "get_even_numbers" /\ fpc = "scan"
    /\ IF it > Len(base) THEN fpc' = "return" /\ it' = it
       ELSE IF IsEven(base[it]) THEN fpc' = "copy" /\ it' = it
       ELSE fpc' = fpc /\ it' = it + 1
    /\ UNCHANGED <<driver, pc, mem, total, ret, out, exit_code, fn, src, dst,
                   res, result, first, sum_total, libVars>>

\* The vector constructor copies the element the iterator stands on and
\* increments the iterator.
\* faulty variant: increments the iterator twice
FilterCopy_Skip ==
    /\ fn = "get_even_numbers" /\ fpc = "copy"
    /\ res' = Append(res, base[it])
    /\ it' = it + 2
    /\ fpc' = "scan"
    /\ UNCHANGED <<driver, pc, mem, total, ret, out, exit_code, fn, src, dst,
                   result, first, sum_total, libVars>>

FilterCopy ==
    /\ fn = "get_even_numbers" /\ fpc = "copy"
    /\ res' = Append(res, base[it])
    /\ it' = it + 1
    /\ fpc' = "scan"
    /\ UNCHANGED <<driver, pc, mem, total, ret, out, exit_code, fn, src, dst,
                   result, first, sum_total, libVars>>

FilterReturn == fn = "get_even_numbers" /\ ReturnVector

----------------------------------------------------------------------------
(* square_numbers: numbers | std::views::transform(n * n), collected        *)

\* Dereferencing the transform iterator applies the lambda; the vector
\* constructor stores the value and increments the iterator.  n * n that
\* does not fit int is undefined: it wraps or the program traps.
\* faulty variant: inserts at the front, no trap
SquareStep_Prepend ==
    /\ fn = "square_numbers" /\ fpc = "loop"
    /\ IF it > Len(base) THEN fpc' = "return" /\ UNCHANGED <<it, res>>
       ELSE /\ it' = it + 1
            /\ fpc' = fpc
            /\ res' = <<Square(base[it])>> \o res
    /\ UNCHANGED <<driver, pc, mem, total, ret, out, exit_code, fn, src, dst,
                   result, first, sum_total, libVars>>

SquareStep ==
    /\ fn = "square_numbers" /\ fpc = "loop"
    /\ IF it > Len(base) THEN fpc' = "return" /\ UNCHANGED <<it, res>>
       ELSE \/ /\ it' = it + 1
               /\ fpc' = fpc
               /\ res' = Append(res, Square(base[it]))
            \/ /\ ~SquareFits(base[it])
               /\ fpc' = "trapped"
               /\ UNCHANGED <<it, res>>
    /\ UNCHANGED <<driver, pc, mem, total, ret, out, exit_code, fn, src, dst,
                   result, first, sum_total, libVars>>

SquareReturn == fn = "square_numbers" /\ ReturnVector

----------------------------------------------------------------------------
(* sum<T>: total = 0; for (num : numbers) total += num; return total        *)

SumStep ==
    /\ fn = "sum" /\ fpc = "loop"
    /\ IF it > Len(base) THEN fpc' = "return" /\ UNCHANGED <<it, sum_total>>
       ELSE \/ /\ it' = it + 1
               /\ fpc' = fpc
               /\ sum_total' = WrapAdd(sum_total, base[it])
            \/ /\ ~AddFits(sum_total, base[it])
               /\ fpc' = "trapped"
               /\ UNCHANGED <<it, sum_total>>
    /\ UNCHANGED <<driver, pc, mem, total, ret, out, exit_code, fn, src, dst,
                   res, result, first, libVars>>

SumReturn ==
    /\ fn = "sum" /\ fpc = "return"
    /\ total' = sum_total
    /\ ResetFrame
    /\ UNCHANGED <<driver, pc, mem, ret, out, exit_code, libVars>>

----------------------------------------------------------------------------
(* v | std::views::transform(std::to_string), collected (lines 69 to 76)    *)

ToStringStep ==
    /\ fn = "to_string" /\ fpc = "loop"
    /\ IF it > Len(base) THEN fpc' = "return" /\ UNCHANGED <<it, res>>
       ELSE /\ it' = it + 1
            /\ fpc' = fpc
            /\ res' = Append(res, to_string(base[it]))
    /\ UNCHANGED <<driver, pc, mem, total, ret, out, exit_code, fn, src, dst,
                   result, first, sum_total, libVars>>

ToStringReturn == fn = "to_string" /\ ReturnVector

----------------------------------------------------------------------------
(* format_vector                                                            *)

\* loop head, then: if (!first) result += ", ";
\* faulty variant: appends the separator without testing first
FormatSep_Always ==
    /\ fn = "format_vector" /\ fpc = "loop"
    /\ IF it > Len(base) THEN fpc' = "close" /\ result' = result
       ELSE /\ fpc' = "append"
            /\ result' = result \o ", "
    /\ UNCHANGED <<driver, pc, mem, total, ret, out, exit_code, fn, src, dst,
                   it, res, first, sum_total, libVars>>

FormatSep ==
    /\ fn = "format_vector" /\ fpc = "loop"
    /\ IF it > Len(base) THEN fpc' = "close" /\ result' = result
       ELSE /\ fpc' = "append"
            /\ result' = (IF ~first THEN result \o ", " ELSE result)
    /\ UNCHANGED <<driver, pc, mem, total, ret, out, exit_code, fn, src, dst,
                   it, res, first, sum_total, libVars>>

\* result += '"' + s + '"'; first = false;
FormatAppend ==
    /\ fn = "format_vector" /\ fpc = "append"
    /\ result' = result \o ("\"" \o base[it] \o "\"")
    /\ first' = FALSE
    /\ it' = it + 1
    /\ fpc' = "loop"
    /\ UNCHANGED <<driver, pc, mem, total, ret, out, exit_code, fn, src, dst,
                   res, sum_total, libVars>>

\* result += "}";
FormatClose ==
    /\ fn = "format_vector" /\ fpc = "close"
    /\ result' = result \o "}"
    /\ fpc' = "return"
    /\ UNCHANGED <<driver, pc, mem, total, ret, out, exit_code, fn, src, dst,
                   it, res, first, sum_total, libVars>>

\* return result;
FormatReturn ==
    /\ fn = "format_vector" /\ fpc = "return"
    /\ ret' = result
    /\ ResetFrame
    /\ UNCHANGED <<driver, pc, mem, total, out, exit_code, libVars>>

FnNext ==
    \/ FilterScan \/ FilterCopy \/ FilterReturn
    \/ SquareStep \/ SquareReturn
    \/ SumStep \/ SumReturn
    \/ ToStringStep \/ ToStringReturn
    \/ FormatSep \/ FormatAppend \/ FormatClose \/ FormatReturn

----------------------------------------------------------------------------
(* main                                                                     *)

MainStep(at, next) ==
    /\ driver = "main" /\ pc = at /\ fn = "none"
    /\ pc' = next
    /\ UNCHANGED <<driver, exit_code, libVars>>

\* std::vector<int> numbers = {1, 2, 3, 4, 5, 6};
Main57 ==
    /\ MainStep("main_57", "main_60")
    /\ mem' = [mem EXCEPT !["numbers"] = MainNumbers]
    /\ UNCHANGED <<total, ret, out, frameVars>>

\* auto evens = get_even_numbers(numbers);
Main60 ==
    /\ MainStep("main_60", "main_63")
    /\ Call("get_even_numbers", "numbers", "evens")
    /\ UNCHANGED <<mem, total, ret, out>>

\* auto squared_evens = square_numbers(evens);
Main63 ==
    /\ MainStep("main_63", "main_66")
    /\ Call("square_numbers", "evens", "squared_evens")
    /\ UNCHANGED <<mem, total, ret, out>>

\* int total = sum(squared_evens);
Main66 ==
    /\ MainStep("main_66", "main_69")
    /\ Call("sum", "squared_evens", "none")
    /\ UNCHANGED <<mem, total, ret, out>>

\* original_str(original_str_view.begin(), original_str_view.end())
Main69 ==
    /\ MainStep("main_69", "main_72")
    /\ Call("to_string", "numbers", "original_str")
    /\ UNCHANGED <<mem, total, ret, out>>

\* evens_str(evens_str_view.begin(), evens_str_view.end())
Main72 ==
    /\ MainStep("main_72", "main_75")
    /\ Call("to_string", "evens", "evens_str")
    /\ UNCHANGED <<mem, total, ret, out>>

\* squared_evens_str(squared_evens_str_view.begin(), ...end())
Main75 ==
    /\ MainStep("main_75", "main_79")
    /\ Call("to_string", "squared_evens", "squared_evens_str")
    /\ UNCHANGED <<mem, total, ret, out>>

\* the argument format_vector(v) of a std::format call
MainFormat(at, next, v) ==
    /\ MainStep(at, next)
    /\ Call("format_vector", v, "none")
    /\ UNCHANGED <<mem, total, ret, out>>

\* std::cout << std::format(text {} "\n", arg)
MainPrint(at, next, text, arg) ==
    /\ MainStep(at, next)
    /\ out' = out \o text \o arg \o "\n"
    /\ UNCHANGED <<mem, total, ret, frameVars>>

Main79 == MainFormat("main_79", "main_79_print", "original_str")
Main79Print == MainPrint("main_79_print", "main_80", "Original numbers: ", ret)
Main80 == MainFormat("main_80", "main_80_print", "evens_str")
Main80Print == MainPrint("main_80_print", "main_81", "Even numbers: ", ret)
Main81 == MainFormat("main_81", "main_81_print", "squared_evens_str")
Main81Print ==
    MainPrint("main_81_print", "main_82", "Squared even numbers: ", ret)
Main82 ==
    MainPrint("main_82", "main_84", "Sum of squared even numbers: ",
              to_string(total))

\* return 0;
Main84 ==
    /\ driver = "main" /\ pc = "main_84" /\ fn = "none"
    /\ pc' = "exited"
    /\ exit_code' = <<0>>
    /\ UNCHANGED <<driver, mem, total, ret, out, frameVars, libVars>>

MainNext ==
    \/ Main57 \/ Main60 \/ Main63 \/ Main66 \/ Main69 \/ Main72 \/ Main75
    \/ Main79 \/ Main79Print \/ Main80 \/ Main80Print \/ Main81 \/ Main81Print
    \/ Main82 \/ Main84

----------------------------------------------------------------------------
(* Any other caller: applies one function to its vector S (or to its       *)
(* labels L), then drops the result or passes it on as the next input      *)

LibCall(f, s, d) ==
    /\ driver = "lib" /\ pc = "idle"
    /\ Call(f, s, d)
    /\ pc' = "called"
    /\ last' = f
    /\ UNCHANGED <<driver, mem, total, ret, out, exit_code, origin, feeds>>

LibGetEvenNumbers == LibCall("get_even_numbers", "S", "R")
LibSquareNumbers == LibCall("square_numbers", "S", "R")
LibSum == LibCall("sum", "S", "none")
LibToString == LibCall("to_string", "S", "L")
LibFormatVector == LibCall("format_vector", "L", "none")

\* the returned value goes out of scope
LibDrop ==
    /\ driver = "lib" /\ pc = "called" /\ fn = "none"
    /\ pc' = "idle"
    /\ mem' = [mem EXCEPT !["R"] = <<>>]
    /\ total' = 0 /\ ret' = ""
    /\ UNCHANGED <<driver, out, exit_code, frameVars, libVars>>

\* the returned vector<int> becomes the argument of the next call
LibFeed ==
    /\ driver = "lib" /\ pc = "called" /\ fn = "none"
    /\ last \in {"get_even_numbers", "square_numbers"}
    /\ feeds < MaxFeeds
    /\ pc' = "idle"
    /\ mem' = [mem EXCEPT !["S"] = mem["R"], !["R"] = <<>>]
    /\ origin' = last
    /\ feeds' = feeds + 1
    /\ UNCHANGED <<driver, total, ret, out, exit_code, frameVars, last>>

LibNext ==
    \/ LibGetEvenNumbers \/ LibSquareNumbers \/ LibSum \/ LibToString
    \/ LibFormatVector \/ LibDrop \/ LibFeed

----------------------------------------------------------------------------

Next == MainNext \/ LibNext \/ FnNext

Spec == Init /\ [][Next]_vars

----------------------------------------------------------------------------
(* Reference notions used by the properties below                          *)

Range(s) == {s[i] : i \in DOMAIN s}
Count(s, v) == Cardinality({i \in DOMAIN s : s[i] = v})
DivisibleBy2(n) == n % 2 = 0

\* a can be obtained from b by deleting elements (relative order kept)
RECURSIVE IsSubseqOf(_, _)
IsSubseqOf(a, b) ==
    IF a = <<>> THEN TRUE
    ELSE IF b = <<>> THEN FALSE
    ELSE IF Head(a) = Head(b) THEN IsSubseqOf(Tail(a), Tail(b))
    ELSE IsSubseqOf(a, Tail(b))

\* the elements the view iterator has passed
Visited == SubSeq(base, 1, it - 1)

\* an eager single pass that appends each even element
RECURSIVE EagerFilter(_, _, _)
EagerFilter(s, i, acc) ==
    IF i > Len(s) THEN acc
    ELSE EagerFilter(s, i + 1, IF IsEven(s[i]) THEN Append(acc, s[i]) ELSE acc)

\* an eager single pass that appends n * n for each element
RECURSIVE EagerSquare(_, _, _)
EagerSquare(s, i, acc) ==
    IF i > Len(s) THEN acc
    ELSE EagerSquare(s, i + 1, Append(acc, Square(s[i])))

\* the labels of L, each in double quotes, joined by ", "
RECURSIVE JoinQuoted(_)
JoinQuoted(L) ==
    IF L = <<>> THEN ""
    ELSE IF Len(L) = 1 THEN "\"" \o L[1] \o "\""
    ELSE "\"" \o L[1] \o "\"" \o ", " \o JoinQuoted(Tail(L))

RECURSIVE TotalLen(_)
TotalLen(L) == IF L = <<>> THEN 0 ELSE Len(Head(L)) + TotalLen(Tail(L))

\* every partial sum of s, taken left to right, is representable in int
RECURSIVE PartialSumsFit(_, _)
PartialSumsFit(s, acc) ==
    IF s = <<>> THEN TRUE
    ELSE AddFits(acc, Head(s)) /\ PartialSumsFit(Tail(s), acc + Head(s))

\* the mathematical sum of s (evaluated only when PartialSumsFit(s, 0))
RECURSIVE MathSum(_)
MathSum(s) == IF s = <<>> THEN 0 ELSE MathSum(SubSeq(s, 1, Len(s) - 1)) + s[Len(s)]

Line1 == "Original numbers: {\"1\", \"2\", \"3\", \"4\", \"5\", \"6\"}\n"
Line2 == "Even numbers: {\"2\", \"4\", \"6\"}\n"
Line3 == "Squared even numbers: {\"4\", \"16\", \"36\"}\n"
Line4 == "Sum of squared even numbers: 56\n"

----------------------------------------------------------------------------
(* C1: main on {1,2,3,4,5,6} computes evens = {2,4,6}, squared evens =      *)
(* {4,16,36} and total = 56, has written exactly the four expected lines   *)
(* when it returns, and at every moment its output is the first k of       *)
(* those lines, in that order, for some k.                                 *)
C1_MainOutput ==
    driver = "main" =>
        /\ out \in {"", Line1, Line1 \o Line2, Line1 \o Line2 \o Line3,
                    Line1 \o Line2 \o Line3 \o Line4}
        /\ pc = "exited" =>
              /\ mem["evens"] = <<2, 4, 6>>
              /\ mem["squared_evens"] = <<4, 16, 36>>
              /\ total = 56
              /\ out = Line1 \o Line2 \o Line3 \o Line4

C1_Witness ==
    /\ driver = "main" /\ pc = "exited" /\ exit_code = <<0>>
    /\ mem["numbers"] = MainNumbers /\ out # ""

(* C2: when get_even_numbers returns, every element of the result is       *)
(* divisible by 2, every even value of the input occurs in the result as   *)
(* often as in the input, no odd value occurs, and the result is a         *)
(* subsequence of the input in the original order.                         *)
C2_FilterEven ==
    (fn = "get_even_numbers" /\ fpc = "return") =>
        /\ \A i \in DOMAIN res : DivisibleBy2(res[i])
        /\ \A v \in Range(base) \cup Range(res) :
              Count(res, v) = (IF DivisibleBy2(v) THEN Count(base, v) ELSE 0)
        /\ IsSubseqOf(res, base)

C2_Witness ==
    /\ fn = "get_even_numbers" /\ fpc = "return"
    /\ \E i \in DOMAIN base : base[i] < 0 /\ ~DivisibleBy2(base[i])
    /\ \E i \in DOMAIN res : res[i] < 0
    /\ \E i \in DOMAIN res : res[i] = 0
    /\ Len(res) < Len(base)

(* C3: when square_numbers returns, the result has the length of the input *)
(* and its i-th element is the product S[i] * S[i].                        *)
C3_SquareElements ==
    (fn = "square_numbers" /\ fpc = "return") =>
        /\ Len(res) = Len(base)
        /\ \A i \in DOMAIN base :
              SquareFits(base[i]) /\ res[i] = base[i] * base[i]

(* C4: sum never fails; after k elements its running total is the sum of   *)
(* the first k elements (0 for none), and the value it returns for a       *)
(* sequence A \o B is the sum of A plus the sum of B.                      *)
C4_SumAdditive ==
    fn = "sum" =>
        /\ fpc # "trapped"
        /\ PartialSumsFit(Visited, 0) /\ sum_total = MathSum(Visited)
        /\ fpc = "return" =>
              \A k \in 0..Len(base) :
                  LET A == SubSeq(base, 1, k)
                      B == SubSeq(base, k + 1, Len(base))
                  IN  /\ PartialSumsFit(A, 0) /\ PartialSumsFit(B, 0)
                      /\ AddFits(MathSum(A), MathSum(B))
                      /\ sum_total = MathSum(A) + MathSum(B)

(* C5: when format_vector returns, result is "{", the labels in input      *)
(* order each in double quotes and joined by ", ", then "}": no separator  *)
(* leads or trails, the empty input gives "{}" and the labels "1", "2"     *)
(* give {"1", "2"}.                                                        *)
C5_FormatVector ==
    (fn = "format_vector" /\ fpc = "return") =>
        /\ result = "{" \o JoinQuoted(base) \o "}"
        /\ Len(result) = 2 + TotalLen(base) + 2 * Len(base)
                           + (IF base = <<>> THEN 0 ELSE 2 * (Len(base) - 1))
        /\ base # <<>> =>
              /\ SubSeq(result, 1, 2) = "{\""
              /\ SubSeq(result, Len(result) - 1, Len(result)) = "\"}"
        /\ base = <<>> => result = "{}"
        /\ base = <<"1", "2">> => result = "{\"1\", \"2\"}"

C5_Witness ==
    /\ driver = "lib" /\ fn = "format_vector" /\ fpc = "return"
    /\ base = <<"1", "2">> /\ mem["S"] = <<1, 2>>

(* C6: get_even_numbers applied to a vector that get_even_numbers returned *)
(* returns that vector.                                                    *)
C6_FilterIdempotent ==
    (driver = "lib" /\ origin = "get_even_numbers"
        /\ fn = "get_even_numbers" /\ fpc = "return") => res = base

C6_Witness ==
    /\ driver = "lib" /\ origin = "get_even_numbers"
    /\ fn = "get_even_numbers" /\ fpc = "return"
    /\ Len(res) >= 2 /\ res = base

(* C7: no multiplication in square_numbers and no addition in sum applied  *)
(* to a squared sequence leaves the range of int: the element about to be  *)
(* squared has a representable square, and the running total plus the     *)
(* next squared element is representable.                                  *)
C7_NoOverflow ==
    /\ (fn = "square_numbers" /\ fpc = "loop" /\ it <= Len(base))
          => SquareFits(base[it])
    /\ (fn = "sum" /\ fpc = "loop" /\ it <= Len(base)
          /\ (origin = "square_numbers" \/ src = "squared_evens"))
          => AddFits(sum_total, base[it])

(* C8: while a function executes, and when it returns, no vector of the    *)
(* caller changes except the one that receives the returned vector, which  *)
(* is never the argument; and main's numbers is {1,2,3,4,5,6} from its     *)
(* construction on, in particular when "Original numbers" is printed.      *)
C8_InputsUnchanged ==
    /\ [][\A n \in VecNames :
            (fn # "none" /\ ~(fn' = "none" /\ n = dst)) => mem'[n] = mem[n]]_vars
    /\ [](fn # "none" => dst # src)
    /\ []((driver = "main" /\ pc # "main_57") => mem["numbers"] = MainNumbers)

C8_Witness ==
    /\ driver = "main" /\ pc = "main_79_print" /\ fn = "none"
    /\ mem["numbers"] = MainNumbers
    /\ mem["evens"] # <<>> /\ mem["squared_evens"] # <<>> /\ total # 0

(* C9: no run reaches a failure state: no function aborts, every function  *)
(* reaches its return having passed each element of its input once, some   *)
(* step is possible until main has returned, and main returns 0.           *)
C9_Terminates ==
    /\ fpc # "trapped"
    /\ (fn # "none" /\ fpc = "return") => it = Len(base) + 1
    /\ fn # "none" => it <= Len(base) + 1
    /\ pc = "exited" \/ ENABLED Next
    /\ exit_code \in {<<>>, <<0>>}
    /\ pc = "exited" <=> exit_code = <<0>>

(* C10: the elements collected from the lazy filter view and from the lazy *)
(* transform view are, at every point of the iteration and at its end,     *)
(* those an eager single pass over the elements passed so far appends.     *)
C10_LazyEqualsEager ==
    /\ fn = "get_even_numbers" => res = EagerFilter(Visited, 1, <<>>)
    /\ (fn = "square_numbers" /\ fpc # "trapped")
          => res = EagerSquare(Visited, 1, <<>>)
    /\ (fn \in {"get_even_numbers", "square_numbers"} /\ fpc = "return")
          => Visited = base

C10_Witness ==
    /\ fn = "square_numbers" /\ fpc = "return"
    /\ Len(res) >= 2 /\ res[1] # res[2]
    /\ origin = "get_even_numbers"

====
